---- MODULE Spec2Model ----
(***************************************************************************)
(* Model of opt::model_based_opt (src/src/math/simplex/model_based_opt.cpp) *)
(* the constraint tableau used for model-based optimization and projection *)
(* over linear real arithmetic.                                            *)
(*                                                                         *)
(* Rows, the model and the variable -> rows index are kept as in the code: *)
(* m_rows, m_var2value and m_var2row_ids are vectors indexed from 0 (here  *)
(* functions on 0..n-1); a row's m_vars and an index entry are sequences.  *)
(* SASSERT is compiled out of release builds: assertions change no state.  *)
(***************************************************************************)
EXTENDS Integers, Sequences, FiniteSets, TLC

VARIABLES m_rows, m_var2value, m_var2row_ids, pc, bound_trail, bound_vars, hist

vars == <<m_rows, m_var2value, m_var2row_ids, pc, bound_trail, bound_vars, hist>>

(***************************************************************************)
(* Bounds of the model and the sets the operations' inputs are drawn from. *)
(***************************************************************************)
MaxVars == 2
MaxRows == 2
MaxRowsLP == 3
Vals == {0, 1}
Coeffs == {-1, 0, 1}
Consts == {-1, 0}
ObjConsts == {1}

(***************************************************************************)
(* Exact rationals: <<n, d>> with d > 0 and gcd(n, d) = 1, so that equal   *)
(* numbers are equal values.                                               *)
(***************************************************************************)
IAbs(a) == IF a < 0 THEN -a ELSE a

RECURSIVE Gcd(_, _)
Gcd(a, b) == IF b = 0 THEN a ELSE Gcd(b, a % b)

Rat(n, d) ==
    LET g == Gcd(IAbs(n), IAbs(d))
        s == IF d < 0 THEN -1 ELSE 1
    IN <<(s * n) \div g, (s * d) \div g>>

RInt(n) == <<n, 1>>
RZero == <<0, 1>>
ROne == <<1, 1>>
RAdd(p, q) == Rat(p[1] * q[2] + q[1] * p[2], p[2] * q[2])
RNeg(p) == <<-p[1], p[2]>>
RSub(p, q) == RAdd(p, RNeg(q))
RMul(p, q) == Rat(p[1] * q[1], p[2] * q[2])
RDiv(p, q) == Rat(p[1] * q[2], p[2] * q[1])
RLt(p, q) == p[1] * q[2] < q[1] * p[2]
RLe(p, q) == p[1] * q[2] <= q[1] * p[2]
RAbs(p) == <<IAbs(p[1]), p[2]>>
RMin(p, q) == IF RLt(q, p) THEN q ELSE p
is_zero(p) == p[1] = 0
is_pos(p) == p[1] > 0
is_neg(p) == p[1] < 0

(***************************************************************************)
(* Vectors indexed from 0.                                                 *)
(***************************************************************************)
Size(f) == Cardinality(DOMAIN f)
push_back(f, e) == [i \in 0..Size(f) |-> IF i \in DOMAIN f THEN f[i] ELSE e]
EmptyVec == [i \in {} |-> 0]

m_objective_id == 0
\* The "no row" mark of find_bound and project; no row id reaches it.
UINT_MAX == 2147483647

\* row(): the row the constructor pushes; it is not alive until set_row.
row == [m_vars |-> <<>>, m_coeff |-> RZero, m_type |-> "t_le",
        m_value |-> RZero, m_alive |-> FALSE]

\* The tableau as one value, for the operators below.
Tab == [m_rows |-> m_rows, m_var2value |-> m_var2value, m_var2row_ids |-> m_var2row_ids]

objective(T) == T.m_rows[m_objective_id]

(***************************************************************************)
(* get_row_value: constant plus the dot product with the model.            *)
(***************************************************************************)
RECURSIVE dot(_, _, _)
dot(vs, value, acc) ==
    IF vs = <<>> THEN acc
    ELSE dot(Tail(vs), value, RAdd(acc, RMul(Head(vs).m_coeff, value[Head(vs).m_id])))

get_row_value(T, r) == dot(r.m_vars, T.m_var2value, r.m_coeff)

(***************************************************************************)
(* get_coefficient: binary search in the sorted m_vars.                    *)
(***************************************************************************)
RECURSIVE bsearch(_, _, _, _)
bsearch(vs, var_id, lo, hi) ==
    IF lo < hi
    THEN LET mid == lo + (hi - lo) \div 2
             id == vs[mid + 1].m_id
         IN IF id = var_id THEN mid
            ELSE IF id < var_id THEN bsearch(vs, var_id, mid + 1, hi)
            ELSE bsearch(vs, var_id, lo, mid)
    ELSE lo

get_coefficient(T, row_id, var_id) ==
    LET vs == T.m_rows[row_id].m_vars
    IN IF vs = <<>> THEN RZero
       ELSE LET lo == bsearch(vs, var_id, 0, Len(vs))
            IN IF lo = Len(vs) THEN RZero
               ELSE IF vs[lo + 1].m_id = var_id THEN vs[lo + 1].m_coeff
               ELSE RZero

(***************************************************************************)
(* mul_add: row1 <- row1 + c*row2, one merge pass over the two sorted      *)
(* lists.  merge_vars is m_new_vars; merge_new lists the ids the pass      *)
(* pushes row_id1 under in m_var2row_ids (those only row2 has).            *)
(***************************************************************************)
scale(v, c) == [m_id |-> v.m_id, m_coeff |-> RMul(v.m_coeff, c)]

RECURSIVE scale_all(_, _)
scale_all(vs, c) ==
    IF vs = <<>> THEN <<>> ELSE <<scale(Head(vs), c)>> \o scale_all(Tail(vs), c)

RECURSIVE ids_of(_)
ids_of(vs) == IF vs = <<>> THEN <<>> ELSE <<Head(vs).m_id>> \o ids_of(Tail(vs))

RECURSIVE merge_vars(_, _, _)
merge_vars(v1, v2, c) ==
    IF v2 = <<>> THEN v1
    ELSE IF v1 = <<>> THEN scale_all(v2, c)
    ELSE IF Head(v1).m_id = Head(v2).m_id
         THEN LET s == RAdd(Head(v1).m_coeff, RMul(c, Head(v2).m_coeff))
              IN (IF is_zero(s) THEN <<>> ELSE <<[m_id |-> Head(v1).m_id, m_coeff |-> s]>>)
                 \o merge_vars(Tail(v1), Tail(v2), c)
    ELSE IF Head(v1).m_id < Head(v2).m_id
         THEN <<Head(v1)>> \o merge_vars(Tail(v1), v2, c)
    ELSE <<scale(Head(v2), c)>> \o merge_vars(v1, Tail(v2), c)

RECURSIVE merge_new(_, _)
merge_new(v1, v2) ==
    IF v2 = <<>> THEN <<>>
    ELSE IF v1 = <<>> THEN ids_of(v2)
    ELSE IF Head(v1).m_id = Head(v2).m_id THEN merge_new(Tail(v1), Tail(v2))
    ELSE IF Head(v1).m_id < Head(v2).m_id THEN merge_new(Tail(v1), v2)
    ELSE <<Head(v2).m_id>> \o merge_new(v1, Tail(v2))

SeqSet(s) == {s[i] : i \in 1..Len(s)}

\* Mutant of mul_add_type: two strict rows of the same sign stay strict.
mul_add_type_keep(same_sign, t1, t2) ==
    IF ~same_sign /\ t2 = "t_lt" THEN "t_lt" ELSE t1

\* Mutant of mul_add_type: a strict source never makes the destination strict.
mul_add_type_weak(same_sign, t1, t2) ==
    IF same_sign /\ t1 = "t_lt" /\ t2 = "t_lt" THEN "t_le" ELSE t1

mul_add_type(same_sign, t1, t2) ==
    IF ~same_sign /\ t2 = "t_lt" THEN "t_lt"
    ELSE IF same_sign /\ t1 = "t_lt" /\ t2 = "t_lt" THEN "t_le"
    ELSE t1

\* Mutant of mul_add_value: the cached value is not carried along.
mul_add_value_stale(r1, c, r2) == r1.m_value

mul_add_value(r1, c, r2) == RAdd(r1.m_value, RMul(c, r2.m_value))

mul_add(T, same_sign, row_id1, c, row_id2) ==
    IF is_zero(c) THEN T
    ELSE LET r1 == T.m_rows[row_id1]
             r2 == T.m_rows[row_id2]
             added == IF row_id1 # m_objective_id
                      THEN SeqSet(merge_new(r1.m_vars, r2.m_vars)) ELSE {}
             nr == [m_vars |-> merge_vars(r1.m_vars, r2.m_vars, c),
                    m_coeff |-> RAdd(r1.m_coeff, RMul(c, r2.m_coeff)),
                    m_type |-> mul_add_type(same_sign, r1.m_type, r2.m_type),
                    m_value |-> mul_add_value(r1, c, r2),
                    m_alive |-> r1.m_alive]
         IN [T EXCEPT !.m_rows[row_id1] = nr,
                      !.m_var2row_ids = [v \in DOMAIN T.m_var2row_ids |->
                           IF v \in added THEN Append(T.m_var2row_ids[v], row_id1)
                           ELSE T.m_var2row_ids[v]]]

\* Mutant of retire: the row stays alive.
retire_not(T, row_id) == T

\* m_rows[row_id].m_alive = false: the row is retired, never removed.
retire(T, row_id) == [T EXCEPT !.m_rows[row_id].m_alive = FALSE]

(***************************************************************************)
(* resolve: cancel x in row_dst against row_src, whose coefficient on x is *)
(* a1.  A dead destination is left alone.                                  *)
(***************************************************************************)
resolve(T, row_src, a1, row_dst, x) ==
    IF T.m_rows[row_dst].m_alive
    THEN LET a2 == get_coefficient(T, row_dst, x)
         IN mul_add(T, row_dst # m_objective_id /\ (is_pos(a1) = is_pos(a2)),
                    row_dst, RNeg(RDiv(a2, a1)), row_src)
    ELSE T

RECURSIVE resolve_all(_, _, _, _, _)
resolve_all(T, row_src, a1, dsts, x) ==
    IF dsts = <<>> THEN T
    ELSE resolve_all(resolve(T, row_src, a1, Head(dsts), x), row_src, a1, Tail(dsts), x)

(***************************************************************************)
(* find_bound: scan the rows indexed under x once each (visited), keep the *)
(* tightest bound in the direction is_pos as the pivot, collect the other  *)
(* rows of that side in m_above and the rows of the other side in m_below. *)
(***************************************************************************)
bound_value(T, row_id, x, a) ==
    RSub(T.m_var2value[x], RDiv(T.m_rows[row_id].m_value, a))

\* Mutant of find_bound_takes: no preference for a strict row on a tie.
find_bound_takes_first(is_pos_, value, lub_val, type) ==
    \/ (is_pos_ /\ RLt(value, lub_val))
    \/ (~is_pos_ /\ RLt(lub_val, value))

\* Mutant of find_bound_takes: the comparisons are the wrong way round.
find_bound_takes_loosest(is_pos_, value, lub_val, type) ==
    \/ (value = lub_val /\ type = "t_lt")
    \/ (is_pos_ /\ RLt(lub_val, value))
    \/ (~is_pos_ /\ RLt(value, lub_val))

find_bound_takes(is_pos_, value, lub_val, type) ==
    \/ (value = lub_val /\ type = "t_lt")
    \/ (is_pos_ /\ RLt(value, lub_val))
    \/ (~is_pos_ /\ RLt(lub_val, value))

find_bound_visit(T, x, is_pos_, row_id, st) ==
    IF row_id \in st.visited THEN st
    ELSE LET s1 == [st EXCEPT !.visited = @ \cup {row_id}]
             r == T.m_rows[row_id]
             a == get_coefficient(T, row_id, x)
         IN IF ~r.m_alive THEN s1
            ELSE IF is_zero(a) THEN s1
            ELSE IF (is_pos(a) = is_pos_) \/ r.m_type = "t_eq"
                 THEN LET value == bound_value(T, row_id, x, a)
                      IN IF s1.bound_row_index = UINT_MAX
                         THEN [s1 EXCEPT !.lub_val = value, !.bound_row_index = row_id,
                                         !.bound_coeff = a]
                         ELSE IF find_bound_takes(is_pos_, value, s1.lub_val, r.m_type)
                         THEN [s1 EXCEPT !.m_above = Append(@, s1.bound_row_index),
                                         !.lub_val = value, !.bound_row_index = row_id,
                                         !.bound_coeff = a]
                         ELSE [s1 EXCEPT !.m_above = Append(@, row_id)]
            ELSE [s1 EXCEPT !.m_below = Append(@, row_id)]

RECURSIVE find_bound_scan(_, _, _, _, _)
find_bound_scan(T, x, is_pos_, row_ids, st) ==
    IF row_ids = <<>> THEN st
    ELSE find_bound_scan(T, x, is_pos_, Tail(row_ids),
                         find_bound_visit(T, x, is_pos_, Head(row_ids), st))

find_bound_over(T, x, is_pos_, row_ids) ==
    find_bound_scan(T, x, is_pos_, row_ids,
        [visited |-> {}, bound_row_index |-> UINT_MAX, lub_val |-> RZero,
         bound_coeff |-> RZero, m_above |-> <<>>, m_below |-> <<>>])

\* Mutant of find_bound: the scan starts at the second index entry.
find_bound_skip(T, x, is_pos_) ==
    find_bound_over(T, x, is_pos_,
        IF T.m_var2row_ids[x] = <<>> THEN <<>> ELSE Tail(T.m_var2row_ids[x]))

find_bound(T, x, is_pos_) == find_bound_over(T, x, is_pos_, T.m_var2row_ids[x])

(***************************************************************************)
(* update_values: walk the trail from the last bound to the first, give    *)
(* each eliminated variable the value its bound row implies (moved off the *)
(* boundary by eps when the row is strict), then recompute the cached      *)
(* value of every row indexed under an eliminated variable.                *)
(***************************************************************************)
RECURSIVE rest_value(_, _, _, _)
rest_value(vs, x, value, acc) ==
    IF vs = <<>> THEN acc
    ELSE rest_value(Tail(vs), x, value,
            IF Head(vs).m_id = x THEN acc
            ELSE RAdd(acc, RMul(value[Head(vs).m_id], Head(vs).m_coeff)))

RECURSIVE x_coeff_of(_, _, _)
x_coeff_of(vs, x, acc) ==
    IF vs = <<>> THEN acc
    ELSE x_coeff_of(Tail(vs), x, IF Head(vs).m_id = x THEN Head(vs).m_coeff ELSE acc)

strict_eps(old_x_val, new_x_val) ==
    RMin(ROne, RDiv(RAbs(RSub(old_x_val, new_x_val)), RInt(2)))

new_value(T, x, r) ==
    LET val == rest_value(r.m_vars, x, T.m_var2value, r.m_coeff)
        x_coeff == x_coeff_of(r.m_vars, x, RZero)
        old_x_val == T.m_var2value[x]
        tight == RNeg(RDiv(val, x_coeff))
    IN IF r.m_type = "t_lt"
       THEN IF is_pos(x_coeff) THEN RSub(tight, strict_eps(old_x_val, tight))
            ELSE RAdd(tight, strict_eps(old_x_val, tight))
       ELSE tight

update_values_set(T, x, row_id) ==
    LET T1 == [T EXCEPT !.m_var2value[x] = new_value(T, x, T.m_rows[row_id])]
    IN [T1 EXCEPT !.m_rows[row_id].m_value = get_row_value(T1, T1.m_rows[row_id])]

RECURSIVE update_values_back(_, _, _, _)
update_values_back(T, bvars, btrail, i) ==
    IF i = 0 THEN T
    ELSE update_values_back(update_values_set(T, bvars[i], btrail[i]), bvars, btrail, i - 1)

RECURSIVE recompute_rows(_, _)
recompute_rows(T, row_ids) ==
    IF row_ids = <<>> THEN T
    ELSE recompute_rows(
            [T EXCEPT !.m_rows[Head(row_ids)].m_value =
                          get_row_value(T, T.m_rows[Head(row_ids)])],
            Tail(row_ids))

RECURSIVE update_values_check(_, _, _)
update_values_check(T, bvars, i) ==
    IF i = 0 THEN T
    ELSE update_values_check(recompute_rows(T, T.m_var2row_ids[bvars[i]]), bvars, i - 1)

update_values(T, bvars, btrail) ==
    update_values_check(update_values_back(T, bvars, btrail, Len(btrail)),
                        bvars, Len(btrail))

(***************************************************************************)
(* add_var, set_row, add_constraint, set_objective.  coeffs is the         *)
(* caller's list of terms, in the caller's order; set_row sorts it by id.  *)
(***************************************************************************)
add_var(T, value) ==
    [T EXCEPT !.m_var2value = push_back(@, value),
              !.m_var2row_ids = push_back(@, <<>>)]

RECURSIVE insert_sorted(_, _)
insert_sorted(vs, v) ==
    IF vs = <<>> THEN <<v>>
    ELSE IF v.m_id < Head(vs).m_id THEN <<v>> \o vs
    ELSE <<Head(vs)>> \o insert_sorted(Tail(vs), v)

RECURSIVE sort_vars(_)
sort_vars(vs) ==
    IF vs = <<>> THEN <<>> ELSE insert_sorted(sort_vars(Tail(vs)), Head(vs))

set_row(T, row_id, coeffs, c, rel) ==
    [T EXCEPT !.m_rows[row_id] =
        [m_vars |-> sort_vars(@.m_vars \o coeffs),
         m_coeff |-> c,
         m_type |-> rel,
         m_value |-> dot(coeffs, T.m_var2value, c),
         m_alive |-> TRUE]]

add_constraint(T, coeffs, c, rel) ==
    LET row_id == Size(T.m_rows)
        T1 == set_row([T EXCEPT !.m_rows = push_back(@, row)], row_id, coeffs, c, rel)
        named == SeqSet(ids_of(coeffs))
    IN [T1 EXCEPT !.m_var2row_ids = [v \in DOMAIN @ |->
                      IF v \in named THEN Append(@[v], row_id) ELSE @[v]]]

set_objective(T, coeffs, c) == set_row(T, m_objective_id, coeffs, c, "t_le")

get_live_rows(T) == {i \in DOMAIN T.m_rows : T.m_rows[i].m_alive}

(***************************************************************************)
(* solve_for: resolve every other row indexed under x against the equality *)
(* row_id1, then retire it.                                                *)
(***************************************************************************)
RECURSIVE solve_for_scan(_, _, _, _, _, _)
solve_for_scan(T, row_id1, a, x, row_ids, visited) ==
    IF row_ids = <<>> THEN T
    ELSE IF Head(row_ids) \in visited
         THEN solve_for_scan(T, row_id1, a, x, Tail(row_ids), visited)
    ELSE solve_for_scan(resolve(T, row_id1, a, Head(row_ids), x), row_id1, a, x,
                        Tail(row_ids), visited \cup {Head(row_ids)})

solve_for(T, row_id1, x) ==
    LET T1 == solve_for_scan(T, row_id1, get_coefficient(T, row_id1, x), x,
                             T.m_var2row_ids[x], {row_id1})
    IN retire(T1, row_id1)

(***************************************************************************)
(* project: select the lub and glb representatives among the live rows on  *)
(* x (an equality ends the scan: eq_row), pivot on the one of the smaller  *)
(* side, resolve the other rows against it and retire it; with no pivot    *)
(* retire every row on x.                                                  *)
(***************************************************************************)
project_visit(T, x, row_id, st) ==
    IF row_id \in st.visited THEN st
    ELSE LET s1 == [st EXCEPT !.visited = @ \cup {row_id}]
             r == T.m_rows[row_id]
             a == get_coefficient(T, row_id, x)
         IN IF ~r.m_alive THEN s1
            ELSE IF is_zero(a) THEN s1
            ELSE IF r.m_type = "t_eq" THEN [s1 EXCEPT !.eq_row = row_id]
            ELSE IF is_pos(a)
                 THEN LET lub_value == bound_value(T, row_id, x, a)
                          s2 == IF \/ s1.lub_rows = <<>>
                                   \/ RLt(lub_value, s1.lub_val)
                                   \/ (lub_value = s1.lub_val /\ r.m_type = "t_lt"
                                       /\ ~s1.lub_strict)
                                THEN [s1 EXCEPT !.lub_val = lub_value,
                                                !.lub_index = row_id,
                                                !.lub_strict = (r.m_type = "t_lt")]
                                ELSE s1
                      IN [s2 EXCEPT !.lub_rows = Append(@, row_id)]
            ELSE LET glb_value == bound_value(T, row_id, x, a)
                     s2 == IF \/ s1.glb_rows = <<>>
                              \/ RLt(s1.glb_val, glb_value)
                              \/ (glb_value = s1.glb_val /\ r.m_type = "t_lt"
                                  /\ ~s1.glb_strict)
                           THEN [s1 EXCEPT !.glb_val = glb_value,
                                           !.glb_index = row_id,
                                           !.glb_strict = (r.m_type = "t_lt")]
                           ELSE s1
                 IN [s2 EXCEPT !.glb_rows = Append(@, row_id)]

RECURSIVE project_scan(_, _, _, _)
project_scan(T, x, row_ids, st) ==
    IF row_ids = <<>> \/ st.eq_row # UINT_MAX THEN st
    ELSE project_scan(T, x, Tail(row_ids), project_visit(T, x, Head(row_ids), st))

project_select_over(T, x, row_ids) ==
    project_scan(T, x, row_ids,
        [visited |-> {}, eq_row |-> UINT_MAX,
         lub_index |-> UINT_MAX, glb_index |-> UINT_MAX,
         lub_strict |-> FALSE, glb_strict |-> FALSE,
         lub_val |-> RZero, glb_val |-> RZero,
         lub_rows |-> <<>>, glb_rows |-> <<>>])

project_select(T, x) == project_select_over(T, x, T.m_var2row_ids[x])

project_pivot(sel) ==
    IF Len(sel.lub_rows) <= Len(sel.glb_rows) THEN sel.lub_index ELSE sel.glb_index

RECURSIVE retire_all(_, _)
retire_all(T, row_ids) ==
    IF row_ids = <<>> THEN T
    ELSE retire_all(retire(T, Head(row_ids)), Tail(row_ids))

RECURSIVE without(_, _)
without(row_ids, row_index) ==
    IF row_ids = <<>> THEN <<>>
    ELSE (IF Head(row_ids) = row_index THEN <<>> ELSE <<Head(row_ids)>>)
         \o without(Tail(row_ids), row_index)

project(T, x) ==
    LET sel == project_select(T, x)
        row_index == project_pivot(sel)
        glb_rows == sel.glb_rows \o sel.lub_rows
    IN IF sel.eq_row # UINT_MAX THEN solve_for(T, sel.eq_row, x)
       ELSE IF row_index = UINT_MAX THEN retire_all(T, glb_rows)
       ELSE LET T1 == resolve_all(T, row_index, get_coefficient(T, row_index, x),
                                  without(glb_rows, row_index), x)
            IN retire(T1, row_index)

(***************************************************************************)
(* maximize: one pass of the while loop (maximize_fold when a bound row is *)
(* found for the objective's last variable) and the two ways out of it.    *)
(***************************************************************************)
maximize_fold(T, v, fb) ==
    LET x == v.m_id
        T1 == resolve_all(T, fb.bound_row_index, fb.bound_coeff, fb.m_above, x)
        T2 == resolve_all(T1, fb.bound_row_index, fb.bound_coeff, fb.m_below, x)
        T3 == mul_add(T2, FALSE, m_objective_id,
                      RNeg(RDiv(v.m_coeff, fb.bound_coeff)), fb.bound_row_index)
    IN retire(T3, fb.bound_row_index)

\* Mutant of maximize_value: the strict case is forgotten.
maximize_value_exact(T) ==
    [kind |-> "finite", value |-> objective(T).m_value, eps |-> 0]

maximize_value(T) ==
    [kind |-> "finite", value |-> objective(T).m_value,
     eps |-> IF objective(T).m_type = "t_lt" THEN -1 ELSE 0]

infinity == [kind |-> "infinity", value |-> RZero, eps |-> 0]

(***************************************************************************)
(* The callers' inputs.  TermLists(n) are the term lists over variables    *)
(* 0..n-1 with coefficients from Coeffs, zero coefficients left out,       *)
(* listed by descending id (so that set_row's sort has work to do).        *)
(***************************************************************************)
RECURSIVE terms_of(_, _)
terms_of(f, n) ==
    IF n = 0 THEN <<>>
    ELSE (IF f[n - 1] = 0 THEN <<>> ELSE <<[m_id |-> n - 1, m_coeff |-> RInt(f[n - 1])]>>)
         \o terms_of(f, n - 1)

TermLists(n) == {terms_of(f, n) : f \in [0..(n - 1) -> Coeffs]}

Rels == {"t_eq", "t_lt", "t_le"}

satisfied(rel, value) ==
    CASE rel = "t_eq" -> is_zero(value)
      [] rel = "t_lt" -> is_neg(value)
      [] rel = "t_le" -> ~is_pos(value)

(***************************************************************************)
(* hist records the operation that last ran, with the tableau it ran on:   *)
(* op, the projected variable x, the rows and the model before the call,   *)
(* call_lt (a strict bound row was folded into the objective during this   *)
(* maximize call), obj_lt (the same since the last set_objective) and the   *)
(* value maximize returned.                                                *)
(***************************************************************************)
NoResult == [kind |-> "none", value |-> RZero, eps |-> 0]

NoHist(op, obj_lt) ==
    [op |-> op, x |-> 0, rows |-> EmptyVec, vals |-> EmptyVec,
     call_lt |-> FALSE, obj_lt |-> obj_lt, result |-> NoResult]

Init ==
    /\ m_rows = [i \in {m_objective_id} |-> row]
    /\ m_var2value = EmptyVec
    /\ m_var2row_ids = EmptyVec
    /\ pc = "idle"
    /\ bound_trail = <<>>
    /\ bound_vars = <<>>
    /\ hist = NoHist("other", FALSE)

Install(T) ==
    /\ m_rows' = T.m_rows
    /\ m_var2value' = T.m_var2value
    /\ m_var2row_ids' = T.m_var2row_ids

AddVar ==
    /\ pc = "idle"
    /\ Size(m_var2value) < MaxVars
    /\ \E value \in Vals : Install(add_var(Tab, RInt(value)))
    /\ hist' = NoHist("other", hist.obj_lt)
    /\ UNCHANGED <<pc, bound_trail, bound_vars>>

\* add_constraint with at most max_rows constraints in the tableau and the
\* relation drawn from rels; the caller's constraint holds in the model.
AddRow(max_rows, rels) ==
    /\ pc = "idle"
    /\ Size(m_rows) <= max_rows
    /\ \E coeffs \in TermLists(Size(m_var2value)) \ {<<>>}, c \in Consts, rel \in rels :
          /\ satisfied(rel, dot(coeffs, m_var2value, RInt(c)))
          /\ Install(add_constraint(Tab, coeffs, RInt(c), rel))
    /\ hist' = NoHist("other", hist.obj_lt)
    /\ UNCHANGED <<pc, bound_trail, bound_vars>>

AddConstraint == AddRow(MaxRows, Rels)

SetObjective ==
    /\ pc = "idle"
    /\ objective(Tab).m_vars = <<>>
    /\ \E coeffs \in TermLists(Size(m_var2value)), c \in ObjConsts :
          Install(set_objective(Tab, coeffs, RInt(c)))
    /\ hist' = NoHist("other", FALSE)
    /\ UNCHANGED <<pc, bound_trail, bound_vars>>

Project ==
    /\ pc = "idle"
    /\ \E x \in DOMAIN m_var2value :
          /\ Install(project(Tab, x))
          /\ hist' = [NoHist("project", hist.obj_lt) EXCEPT
                          !.x = x, !.rows = m_rows, !.vals = m_var2value]
    /\ UNCHANGED <<pc, bound_trail, bound_vars>>

MaximizeCall ==
    /\ pc = "idle"
    /\ pc' = "loop"
    /\ bound_trail' = <<>>
    /\ bound_vars' = <<>>
    /\ hist' = [NoHist("maximize", hist.obj_lt) EXCEPT
                    !.rows = m_rows, !.vals = m_var2value]
    /\ UNCHANGED <<m_rows, m_var2value, m_var2row_ids>>

MaximizeReturn(T, value) ==
    /\ Install(T)
    /\ hist' = [hist EXCEPT !.result = value]
    /\ pc' = "idle"
    /\ bound_trail' = <<>>
    /\ bound_vars' = <<>>

MaximizeLoop ==
    /\ pc = "loop"
    /\ IF objective(Tab).m_vars = <<>>
       THEN LET T == update_values(Tab, bound_vars, bound_trail)
            IN MaximizeReturn(T, maximize_value(T))
       ELSE LET v == objective(Tab).m_vars[Len(objective(Tab).m_vars)]
                fb == find_bound(Tab, v.m_id, is_pos(v.m_coeff))
            IN IF fb.bound_row_index # UINT_MAX
               THEN /\ Install(maximize_fold(Tab, v, fb))
                    /\ bound_trail' = Append(bound_trail, fb.bound_row_index)
                    /\ bound_vars' = Append(bound_vars, v.m_id)
                    /\ hist' = LET lt == m_rows[fb.bound_row_index].m_type = "t_lt"
                               IN [hist EXCEPT !.call_lt = @ \/ lt, !.obj_lt = @ \/ lt]
                    /\ UNCHANGED pc
               ELSE MaximizeReturn(update_values(Tab, bound_vars, bound_trail), infinity)

Next ==
    \/ AddVar
    \/ AddConstraint
    \/ SetObjective
    \/ Project
    \/ MaximizeCall
    \/ MaximizeLoop

Spec == Init /\ [][Next]_vars

(***************************************************************************)
(* The optimization scenario: declare the variables, add up to MaxRowsLP   *)
(* non-strict inequalities and the objective, then call maximize once.     *)
(***************************************************************************)
AddInequality ==
    /\ Size(m_var2value) = MaxVars
    /\ AddRow(MaxRowsLP, {"t_le"})

NextLP ==
    /\ hist.op = "other" \/ pc = "loop"
    /\ \/ AddVar
       \/ AddInequality
       \/ SetObjective
       \/ MaximizeCall
       \/ MaximizeLoop

LPSpec == Init /\ [][NextLP]_vars

(***************************************************************************)
(* The termination scenario: build any tableau of up to MaxRows rows of    *)
(* any type, set the objective and call maximize once.  maximize is a      *)
(* synchronous loop, nothing suspends it between two passes, so a pass     *)
(* that can be taken is taken: weak fairness of MaximizeLoop.  A pass can  *)
(* be taken exactly when pc = "loop" and every pass changes pc or extends  *)
(* bound_trail, so WF_vars(MaximizeLoop) is written with its ENABLED       *)
(* replaced by pc = "loop".                                                *)
(***************************************************************************)
MaximizeFair == []<>(pc # "loop") \/ []<><<MaximizeLoop>>_vars

NextMax ==
    /\ hist.op = "other" \/ pc = "loop"
    /\ \/ AddVar
       \/ AddConstraint
       \/ SetObjective
       \/ MaximizeCall
       \/ MaximizeLoop

MaxSpec == Init /\ [][NextMax]_vars /\ MaximizeFair

(***************************************************************************)
(* The projection-then-optimization scenario: build a tableau and set the  *)
(* objective, project at most one variable, one the objective does not     *)
(* mention, then call maximize once.  Nothing refers to the projected      *)
(* variable after project: the rows live after it do not mention it.       *)
(***************************************************************************)
ProjectUnused ==
    /\ Project
    /\ \A i \in 1..Len(objective(Tab).m_vars) : objective(Tab).m_vars[i].m_id # hist'.x

NextPM ==
    \/ hist.op = "other" /\ AddVar
    \/ hist.op = "other" /\ AddConstraint
    \/ hist.op = "other" /\ SetObjective
    \/ hist.op = "other" /\ ProjectUnused
    \/ hist.op # "maximize" /\ MaximizeCall
    \/ MaximizeLoop

ProjMaxSpec == Init /\ [][NextPM]_vars

(***************************************************************************)
(* Reference semantics of a row set, independent of the tableau code: a    *)
(* row becomes an inequality  co . v + k  (<, <=)  0  with integer          *)
(* coefficients (an equality becomes two), and Fourier-Motzkin elimination *)
(* of every pair decides feasibility, projects a variable out exactly and  *)
(* yields the bounds the system implies on the objective.                  *)
(***************************************************************************)
\* A fresh variable standing for the objective: the first id no variable has.
ZVar == MaxVars

RECURSIVE denoms(_)
denoms(vs) == IF vs = <<>> THEN 1 ELSE Head(vs).m_coeff[2] * denoms(Tail(vs))

row_scale(r) == denoms(r.m_vars) * r.m_coeff[2]

row_co(T, r, V, sign) ==
    LET L == row_scale(r)
    IN [v \in V |->
          IF v \in DOMAIN T.m_var2value
          THEN LET a == x_coeff_of(r.m_vars, v, RZero) IN sign * ((a[1] * L) \div a[2])
          ELSE 0]

row_k(r, sign) == sign * ((r.m_coeff[1] * row_scale(r)) \div r.m_coeff[2])

Ineqs(T, r, V) ==
    IF r.m_type = "t_eq"
    THEN {[co |-> row_co(T, r, V, 1), k |-> row_k(r, 1), strict |-> FALSE],
          [co |-> row_co(T, r, V, -1), k |-> row_k(r, -1), strict |-> FALSE]}
    ELSE {[co |-> row_co(T, r, V, 1), k |-> row_k(r, 1), strict |-> (r.m_type = "t_lt")]}

\* The live constraint rows (row 0, the objective, is no constraint).
System(T, V) ==
    UNION {Ineqs(T, T.m_rows[i], V) :
              i \in {j \in DOMAIN T.m_rows : j # m_objective_id /\ T.m_rows[j].m_alive}}

Combine(p, n, v) ==
    [co |-> [w \in DOMAIN p.co |-> (-n.co[v]) * p.co[w] + p.co[v] * n.co[w]],
     k |-> (-n.co[v]) * p.k + p.co[v] * n.k,
     strict |-> p.strict \/ n.strict]

Eliminate(S, v) ==
    {q \in S : q.co[v] = 0}
    \cup {Combine(p, n, v) : p \in {q \in S : q.co[v] > 0}, n \in {q \in S : q.co[v] < 0}}

RECURSIVE EliminateAll(_, _)
EliminateAll(S, V) ==
    IF V = {} THEN S
    ELSE LET v == CHOOSE w \in V : TRUE IN EliminateAll(Eliminate(S, v), V \ {v})

Holds0(q) == IF q.strict THEN q.k < 0 ELSE q.k <= 0

Feasible(S, V) == \A q \in EliminateAll(S, V) : Holds0(q)

Negation(q) ==
    [co |-> [w \in DOMAIN q.co |-> -q.co[w]], k |-> -q.k, strict |-> ~q.strict]

\* Every point of S satisfies q.
Entails(S, q, V) == ~Feasible(S \cup {Negation(q)}, V)

\* z <= objective, for the fresh variable ZVar.
ObjectiveIneq(T, V) ==
    LET r == objective(T)
        L == row_scale(r)
    IN [co |-> [v \in V |-> IF v = ZVar THEN L ELSE -row_co(T, r, V, 1)[v]],
        k |-> -row_k(r, 1), strict |-> FALSE]

\* The bounds on ZVar that the constraints of T imply: z (<, <=) -k/co.
ObjectiveBounds(T) ==
    LET V == DOMAIN T.m_var2value \cup {ZVar}
        S == System(T, V) \cup {ObjectiveIneq(T, V)}
    IN {q \in EliminateAll(S, V \ {ZVar}) : q.co[ZVar] > 0}

BoundOf(q) == Rat(-q.k, q.co[ZVar])

LPBounded(T) == ObjectiveBounds(T) # {}

\* The supremum of the objective over the live constraints of T.
LPSupremum(T) ==
    LET B == ObjectiveBounds(T)
    IN BoundOf(CHOOSE q \in B : \A p \in B : RLe(BoundOf(q), BoundOf(p)))

(***************************************************************************)
(* The tableau an operation ran on, and what the last maximize returned.   *)
(***************************************************************************)
PreTab == [m_rows |-> hist.rows, m_var2value |-> hist.vals, m_var2row_ids |-> m_var2row_ids]

Projected == hist.op = "project"
Maximized == hist.op = "maximize" /\ pc = "idle"
ReturnedFinite == Maximized /\ hist.result.kind = "finite"
ReturnedInfinity == Maximized /\ hist.result.kind = "infinity"

Constraints(T) == {i \in get_live_rows(T) : i # m_objective_id}

\* The coefficient of row r on x, read off the term list without searching.
CoeffOn(r, x) ==
    IF \E i \in 1..Len(r.m_vars) : r.m_vars[i].m_id = x
    THEN r.m_vars[CHOOSE i \in 1..Len(r.m_vars) : r.m_vars[i].m_id = x].m_coeff
    ELSE RZero

\* The row's value under the model, term by term.
RECURSIVE RSum(_, _)
RSum(r, n) ==
    IF n = 0 THEN r.m_coeff
    ELSE RAdd(RSum(r, n - 1), RMul(r.m_vars[n].m_coeff, m_var2value[r.m_vars[n].m_id]))

(***************************************************************************)
(* C1: in every state the operations reach (add_var, add_constraint,       *)
(* set_objective, project, maximize, a maximize that returns +infinity     *)
(* included), the cached value of every live row is its constant plus the  *)
(* sum of coefficient * model value over its variables.                    *)
(***************************************************************************)
C1_CachedValue ==
    \A i \in get_live_rows(Tab) : m_rows[i].m_value = RSum(m_rows[i], Len(m_rows[i].m_vars))

\* maximize returned +infinity after it had folded a bound and moved the model.
C1_Witness ==
    /\ ReturnedInfinity
    /\ m_var2value # hist.vals
    /\ \E i \in get_live_rows(Tab) : m_rows[i].m_vars # <<>>

(***************************************************************************)
(* C2: in every state the operations reach, every live row other than the  *)
(* objective is satisfied by the model: Eq has cached value 0, Lt has      *)
(* cached value < 0, Le has cached value <= 0; so is every row resolve     *)
(* rewrote, with the relation resolve left it.                             *)
(***************************************************************************)
C2_Satisfied ==
    \A i \in Constraints(Tab) : satisfied(m_rows[i].m_type, m_rows[i].m_value)

\* maximize resolved a strict row against a strict pivot of the same sign
\* that tied with it: the row is now non-strict and its value is 0.
C2_Witness ==
    /\ hist.op = "maximize"
    /\ \E i \in Constraints(Tab) :
          /\ m_rows[i].m_type # hist.rows[i].m_type
          /\ is_zero(m_rows[i].m_value)

(***************************************************************************)
(* C5: project(x) is a sound existential elimination.  Whatever values the *)
(* remaining variables take, if they satisfy the constraint rows live      *)
(* after the call then some value of x satisfies every constraint row that *)
(* was live before it, strict rows strictly: the rows after the call       *)
(* entail each inequality of the exact projection of the rows before.      *)
(***************************************************************************)
C5_ProjectSound ==
    Projected =>
        LET V == DOMAIN hist.vals
            after == System(Tab, V)
        IN \A q \in Eliminate(System(PreTab, V), hist.x) : Entails(after, q, V)

\* project pivoted: a row was rewritten against the pivot and stayed live,
\* and the pivot was retired.
C5_Witness ==
    /\ Projected
    /\ \E i \in Constraints(Tab) : m_rows[i].m_vars # hist.rows[i].m_vars
    /\ \E i \in Constraints(PreTab) : ~m_rows[i].m_alive

(***************************************************************************)
(* C6: after project(x) no row that get_live_rows returns has a non-zero   *)
(* coefficient on x.                                                       *)
(***************************************************************************)
C6_ProjectEliminates ==
    Projected => \A i \in get_live_rows(Tab) : is_zero(CoeffOn(m_rows[i], hist.x))

(***************************************************************************)
(* C9: every call to project(x) marks at least one previously live row     *)
(* dead.                                                                   *)
(***************************************************************************)
C9_ProjectRetires ==
    Projected => \E i \in get_live_rows(PreTab) : ~m_rows[i].m_alive

(***************************************************************************)
(* C9 as amended: a call to project(x) made while some live constraint row *)
(* has a non-zero coefficient on x marks at least one previously live row  *)
(* dead; a call made while none has leaves every row as it was.            *)
(***************************************************************************)
OnX(T, x) == {i \in Constraints(T) : ~is_zero(CoeffOn(T.m_rows[i], x))}

C9_ProjectRetiresReferenced ==
    Projected =>
        IF OnX(PreTab, hist.x) # {}
        THEN \E i \in get_live_rows(PreTab) : ~m_rows[i].m_alive
        ELSE m_rows = hist.rows

\* project(x) ran on a tableau with live rows on x and retired one of them.
C9_Witness ==
    /\ Projected
    /\ \E i \in OnX(PreTab, hist.x) : ~m_rows[i].m_alive

(***************************************************************************)
(* C3: for a constraint system over which the objective is bounded above,  *)
(* the finite value maximize() returns is the supremum of the objective    *)
(* over the constraints.                                                   *)
(***************************************************************************)
C3_MaximizeOptimal ==
    (ReturnedFinite /\ LPBounded(PreTab)) => hist.result.value = LPSupremum(PreTab)

(***************************************************************************)
(* C3 as amended: the finite value maximize() returns is at least the      *)
(* objective's value under the model maximize() was called with and, when  *)
(* the objective is bounded above over the constraints, at most its        *)
(* supremum over them.                                                     *)
(***************************************************************************)
C3_MaximizeWithinOptimum ==
    ReturnedFinite =>
        /\ RLe(hist.rows[m_objective_id].m_value, hist.result.value)
        /\ LPBounded(PreTab) => RLe(hist.result.value, LPSupremum(PreTab))

\* maximize raised the objective from its value under the initial model to
\* the supremum, moving the model.
C3_Witness ==
    /\ ReturnedFinite
    /\ LPBounded(PreTab)
    /\ hist.result.value = LPSupremum(PreTab)
    /\ RLt(hist.rows[m_objective_id].m_value, hist.result.value)
    /\ m_var2value # hist.vals

(***************************************************************************)
(* C4: whenever the constraints place no upper bound on the objective,     *)
(* maximize() returns +infinity.                                           *)
(***************************************************************************)
C4_UnboundedReturnsInfinity ==
    (Maximized /\ ~LPBounded(PreTab)) => hist.result.kind = "infinity"

(***************************************************************************)
(* C4 as amended: whenever maximize() returns +infinity, the constraints   *)
(* live at the call place no upper bound on the objective.                 *)
(***************************************************************************)
C4_InfinityIsUnbounded ==
    ReturnedInfinity => ~LPBounded(PreTab)

\* maximize returned +infinity after folding a bound row into the objective.
C4_Witness ==
    /\ ReturnedInfinity
    /\ \E i \in Constraints(PreTab) : ~m_rows[i].m_alive

(***************************************************************************)
(* C7: a finite result of maximize() is the objective row's constant, and  *)
(* it is marked strict exactly when a bound row folded into the objective  *)
(* during that call had relation Lt.                                       *)
(***************************************************************************)
C7_StrictIffFoldedInCall ==
    ReturnedFinite =>
        /\ hist.result.value = objective(Tab).m_coeff
        /\ (hist.result.eps = -1) <=> hist.call_lt

(***************************************************************************)
(* C7 as amended: a finite result of maximize() is the objective row's     *)
(* constant, and it is marked strict exactly when a bound row folded into  *)
(* the objective since the last set_objective (during this call or an      *)
(* earlier one that returned +infinity) had relation Lt.                   *)
(***************************************************************************)
C7_StrictIffFoldedSinceSet ==
    ReturnedFinite =>
        /\ hist.result.value = objective(Tab).m_coeff
        /\ hist.result.eps \in {-1, 0}
        /\ (hist.result.eps = -1) <=> hist.obj_lt

\* maximize folded a strict bound row and returned a value marked strict.
C7_Witness ==
    /\ ReturnedFinite
    /\ hist.call_lt
    /\ hist.result.eps = -1

(***************************************************************************)
(* C10: the pivot of find_bound, among the live rows that bound x in the   *)
(* direction asked for (equalities included), and the lub and glb          *)
(* representatives of project realise the tightest bound value             *)
(* x_val - cached_value/coeff under the model; when a row attaining that   *)
(* value is strict the chosen row is strict; and the value and strictness  *)
(* chosen do not depend on the order of the row ids in the index.          *)
(***************************************************************************)
BoundAt(T, i, x) ==
    RSub(T.m_var2value[x], RDiv(T.m_rows[i].m_value, CoeffOn(T.m_rows[i], x)))

Indexed(T, x) == {i \in SeqSet(T.m_var2row_ids[x]) :
                     T.m_rows[i].m_alive /\ ~is_zero(CoeffOn(T.m_rows[i], x))}

Candidates(T, x, up) ==
    {i \in Indexed(T, x) : (is_pos(CoeffOn(T.m_rows[i], x)) = up) \/ T.m_rows[i].m_type = "t_eq"}

Uppers(T, x) == {i \in Indexed(T, x) : is_pos(CoeffOn(T.m_rows[i], x))}
Lowers(T, x) == {i \in Indexed(T, x) : is_neg(CoeffOn(T.m_rows[i], x))}

Tightest(T, x, up, C, p) ==
    IF C = {} THEN p = UINT_MAX
    ELSE /\ p \in C
         /\ \A i \in C :
               /\ IF up THEN RLe(BoundAt(T, p, x), BoundAt(T, i, x))
                        ELSE RLe(BoundAt(T, i, x), BoundAt(T, p, x))
               /\ (BoundAt(T, i, x) = BoundAt(T, p, x) /\ T.m_rows[i].m_type = "t_lt")
                     => T.m_rows[p].m_type = "t_lt"

RECURSIVE Reverse(_)
Reverse(q) == IF q = <<>> THEN <<>> ELSE Append(Reverse(Tail(q)), Head(q))

SameChoice(T, x, p, q) ==
    \/ p = UINT_MAX /\ q = UINT_MAX
    \/ /\ p # UINT_MAX /\ q # UINT_MAX
       /\ BoundAt(T, p, x) = BoundAt(T, q, x)
       /\ (T.m_rows[p].m_type = "t_lt") = (T.m_rows[q].m_type = "t_lt")

C10_TightestPivot ==
    \A x \in DOMAIN m_var2value :
        /\ \A up \in BOOLEAN :
              /\ Tightest(Tab, x, up, Candidates(Tab, x, up),
                          find_bound(Tab, x, up).bound_row_index)
              /\ SameChoice(Tab, x, find_bound(Tab, x, up).bound_row_index,
                    find_bound_over(Tab, x, up, Reverse(m_var2row_ids[x])).bound_row_index)
        /\ LET sel == project_select(Tab, x)
               rev == project_select_over(Tab, x, Reverse(m_var2row_ids[x]))
           IN IF sel.eq_row # UINT_MAX
              THEN m_rows[sel.eq_row].m_type = "t_eq" /\ sel.eq_row \in Indexed(Tab, x)
              ELSE /\ Tightest(Tab, x, TRUE, Uppers(Tab, x), sel.lub_index)
                   /\ Tightest(Tab, x, FALSE, Lowers(Tab, x), sel.glb_index)
                   /\ SameChoice(Tab, x, sel.lub_index, rev.lub_index)
                   /\ SameChoice(Tab, x, sel.glb_index, rev.glb_index)

\* Two rows bound x by the same value, the first indexed non-strict and the
\* second strict: find_bound and project both choose the strict one.
C10_Witness ==
    \E x \in DOMAIN m_var2value :
        LET fb == find_bound(Tab, x, TRUE)
            sel == project_select(Tab, x)
        IN /\ fb.m_above # <<>>
           /\ m_rows[fb.bound_row_index].m_type = "t_lt"
           /\ m_rows[fb.m_above[1]].m_type = "t_le"
           /\ BoundAt(Tab, fb.m_above[1], x) = BoundAt(Tab, fb.bound_row_index, x)
           /\ sel.eq_row = UINT_MAX
           /\ sel.lub_index = fb.bound_row_index

(***************************************************************************)
(* C8: every call to maximize() terminates.  Each pass of the loop that    *)
(* does not return retires one live constraint row, so a call makes at     *)
(* most as many passes as there were live constraint rows when it began,   *)
(* also when folding a bound row brings new variables into the objective;  *)
(* and a call that has begun returns.                                      *)
(***************************************************************************)
C8_Variant ==
    pc = "loop" =>
        Len(bound_trail) + Cardinality(Constraints(Tab)) = Cardinality(Constraints(PreTab))

C8_MaximizeTerminates == []C8_Variant /\ ((pc = "loop") ~> (pc = "idle"))

\* A pass folded a bound row that brought a variable into the objective
\* which the objective did not have when maximize was called.
C8_Witness ==
    /\ pc = "loop"
    /\ bound_trail # <<>>
    /\ \E i \in 1..Len(objective(Tab).m_vars) :
          is_zero(CoeffOn(hist.rows[m_objective_id], objective(Tab).m_vars[i].m_id))

(***************************************************************************)
(* C11: after maximize() returns, finite or +infinity, the updated model   *)
(* (get_value) satisfies every constraint as add_constraint added it, also *)
(* when update_values moved an eliminated variable off a strict bound by   *)
(* eps.  Under MaxSpec nothing rewrites a row before the one maximize      *)
(* call, so the rows at the call, hist.rows, are the constraints as added. *)
(***************************************************************************)
get_value(var) == m_var2value[var]

OriginalValue(r) ==
    LET RECURSIVE sum(_)
        sum(n) == IF n = 0 THEN r.m_coeff
                  ELSE RAdd(sum(n - 1),
                            RMul(r.m_vars[n].m_coeff, get_value(r.m_vars[n].m_id)))
    IN sum(Len(r.m_vars))

C11_ModelSatisfiesOriginal ==
    Maximized =>
        \A i \in Constraints(PreTab) :
            satisfied(hist.rows[i].m_type, OriginalValue(hist.rows[i]))

(***************************************************************************)
(* The assertions of the code.  invariant(index, r): the terms are sorted  *)
(* with non-zero coefficients, the cached value is the row's value, an     *)
(* equality has value 0 and, for every row but the objective, Lt has a     *)
(* negative and Le a non-positive value.  Neither form looks at m_alive.   *)
(***************************************************************************)
invariant_row(T, index, r) ==
    /\ \A i \in 1..Len(r.m_vars) :
          /\ (i = Len(r.m_vars) \/ r.m_vars[i].m_id < r.m_vars[i + 1].m_id)
          /\ ~is_zero(r.m_vars[i].m_coeff)
    /\ r.m_value = get_row_value(T, r)
    /\ (r.m_type # "t_eq" \/ is_zero(r.m_value))
    /\ (index = 0 \/ r.m_type # "t_lt" \/ is_neg(r.m_value))
    /\ (index = 0 \/ r.m_type # "t_le" \/ ~is_pos(r.m_value))

invariant(T) == \A i \in DOMAIN T.m_rows : invariant_row(T, i, T.m_rows[i])

\* resolve: its three assertions, and mul_add's closing assertion when
\* mul_add runs to its end (the destination is alive and c is not zero).
resolve_asserts(T, row_src, a1, row_dst, x) ==
    /\ a1 = get_coefficient(T, row_src, x)
    /\ ~is_zero(a1)
    /\ row_src # row_dst
    /\ (T.m_rows[row_dst].m_alive /\ ~is_zero(get_coefficient(T, row_dst, x)))
          => LET T1 == resolve(T, row_src, a1, row_dst, x)
             IN invariant_row(T1, row_dst, T1.m_rows[row_dst])

RECURSIVE resolve_all_asserts(_, _, _, _, _)
resolve_all_asserts(T, row_src, a1, dsts, x) ==
    IF dsts = <<>> THEN TRUE
    ELSE /\ resolve_asserts(T, row_src, a1, Head(dsts), x)
         /\ resolve_all_asserts(resolve(T, row_src, a1, Head(dsts), x),
                                row_src, a1, Tail(dsts), x)

\* One pass of maximize that found a bound: lines 103, 108-113 and 119.
maximize_fold_asserts(T, v, fb) ==
    LET x == v.m_id
        T1 == resolve_all(T, fb.bound_row_index, fb.bound_coeff, fb.m_above, x)
        T2 == resolve_all(T1, fb.bound_row_index, fb.bound_coeff, fb.m_below, x)
        T3 == mul_add(T2, FALSE, m_objective_id,
                      RNeg(RDiv(v.m_coeff, fb.bound_coeff)), fb.bound_row_index)
    IN /\ ~is_zero(fb.bound_coeff)
       /\ resolve_all_asserts(T, fb.bound_row_index, fb.bound_coeff, fb.m_above, x)
       /\ resolve_all_asserts(T1, fb.bound_row_index, fb.bound_coeff, fb.m_below, x)
       /\ invariant_row(T3, m_objective_id, objective(T3))

\* update_values, first loop: lines 184, 190 and 219 for one trail entry.
update_values_set_asserts(T, x, row_id) ==
    LET r == T.m_rows[row_id]
        x_coeff == x_coeff_of(r.m_vars, x, RZero)
        val == rest_value(r.m_vars, x, T.m_var2value, r.m_coeff)
        T1 == update_values_set(T, x, row_id)
    IN /\ ~is_zero(x_coeff)
       /\ r.m_type = "t_lt" =>
             ~is_zero(strict_eps(T.m_var2value[x], RNeg(RDiv(val, x_coeff))))
       /\ invariant_row(T1, row_id, T1.m_rows[row_id])

RECURSIVE update_values_back_asserts(_, _, _, _)
update_values_back_asserts(T, bvars, btrail, i) ==
    IF i = 0 THEN TRUE
    ELSE /\ update_values_set_asserts(T, bvars[i], btrail[i])
         /\ update_values_back_asserts(update_values_set(T, bvars[i], btrail[i]),
                                       bvars, btrail, i - 1)

\* update_values, second loop: line 231 for every row id in the index of an
\* eliminated variable, right after its value is recomputed.
RECURSIVE recompute_rows_asserts(_, _)
recompute_rows_asserts(T, row_ids) ==
    IF row_ids = <<>> THEN TRUE
    ELSE LET T1 == recompute_rows(T, <<Head(row_ids)>>)
         IN /\ invariant_row(T1, Head(row_ids), T1.m_rows[Head(row_ids)])
            /\ recompute_rows_asserts(T1, Tail(row_ids))

RECURSIVE update_values_check_asserts(_, _, _)
update_values_check_asserts(T, bvars, i) ==
    IF i = 0 THEN TRUE
    ELSE /\ recompute_rows_asserts(T, T.m_var2row_ids[bvars[i]])
         /\ update_values_check_asserts(
                recompute_rows(T, T.m_var2row_ids[bvars[i]]), bvars, i - 1)

\* Every assertion of update_values, the closing invariant() (234) included.
update_values_asserts(T, bvars, btrail) ==
    /\ update_values_back_asserts(T, bvars, btrail, Len(btrail))
    /\ update_values_check_asserts(update_values_back(T, bvars, btrail, Len(btrail)),
                                   bvars, Len(btrail))
    /\ invariant(update_values(T, bvars, btrail))

\* The assertions of the pass of maximize that is about to run: invariant()
\* at the entry (93), then those of the fold or of update_values.
maximize_asserts ==
    /\ bound_trail = <<>> => invariant(Tab)
    /\ IF objective(Tab).m_vars = <<>>
       THEN update_values_asserts(Tab, bound_vars, bound_trail)
       ELSE LET v == objective(Tab).m_vars[Len(objective(Tab).m_vars)]
                fb == find_bound(Tab, v.m_id, is_pos(v.m_coeff))
            IN IF fb.bound_row_index # UINT_MAX
               THEN maximize_fold_asserts(Tab, v, fb)
               ELSE update_values_asserts(Tab, bound_vars, bound_trail)

(***************************************************************************)
(* C12: every invariant assertion executed during maximize() and its       *)
(* update_values holds for every row it is applied to, rows that an        *)
(* earlier project() or maximize() marked dead included, in every tableau  *)
(* the public operations reach from constraints satisfied when added.      *)
(***************************************************************************)
C12_AssertionsHold == pc = "loop" => maximize_asserts

====
